---- MODULE Spec2Model ----
(***************************************************************************)
(* Model of the date-range filter parser of the `todo` task tracker        *)
(* (src/src/filter_parser.rs) and of the task store and the commands that  *)
(* work on it (src/src/main.rs).                                           *)
(*                                                                         *)
(* Text is modelled as TLA+ strings, one model character per source        *)
(* character.  The Cyrillic letters of the keyword tables are written      *)
(* with stand-in characters, one per letter (the caller lowercases the     *)
(* phrase, so upper-case Latin never reaches the parser):                  *)
(*   A=а B=б V=в G=г D=д E=е J=ж Z=з I=и Y=й L=л M=м N=н O=о P=п R=р S=с   *)
(*   T=т U=у H=х C=ц Q=ч W=ш X=ы K=ь F=ю @=я                               *)
(* In the phrases given to the find command, & and % stand for the         *)
(* capitals of u and m.                                                    *)
(***************************************************************************)
EXTENDS Integers, Sequences, FiniteSets, TLC

VARIABLES today, overflow_checks, form, phrase, call, result, tasks, now, last

vars == <<today, overflow_checks, form, phrase, call, result, tasks, now, last>>

(***************************************************************************)
(* Characters                                                              *)
(***************************************************************************)
AsciiDigit == {"0", "1", "2", "3", "4", "5", "6", "7", "8", "9"}

LatinLower == {"a", "b", "c", "d", "e", "f", "g", "h", "i", "j", "k", "l", "m",
               "n", "o", "p", "q", "r", "s", "t", "u", "v", "w", "x", "y", "z"}

Cyrillic == {"A", "B", "V", "G", "D", "E", "J", "Z", "I", "Y", "L", "M", "N",
             "O", "P", "R", "S", "T", "U", "H", "C", "Q", "W", "X", "K", "F", "@"}

\* char::is_alphabetic
Alphabetic == LatinLower \cup Cyrillic

\* nom space0 / space1 accept blank and tab
Space == {" ", "\t"}

\* nom multispace0 / multispace1 also accept line ends
Multispace == {" ", "\t", "\r", "\n"}

CharAt(s, i) == SubSeq(s, i, i)

Drop(s, n) == SubSeq(s, n + 1, Len(s))

Take(s, n) == SubSeq(s, 1, n)

StartsWith(s, t) == Len(s) >= Len(t) /\ Take(s, Len(t)) = t

\* length of the longest prefix of s made of characters of cs, counted from i
RECURSIVE SpanLen(_, _, _)
SpanLen(s, cs, i) ==
    IF i < Len(s) /\ CharAt(s, i + 1) \in cs THEN SpanLen(s, cs, i + 1) ELSE i

\* position of the first occurrence of character c in s, 0 if none
RECURSIVE FindChar(_, _, _)
FindChar(s, c, i) ==
    IF i > Len(s) THEN 0
    ELSE IF CharAt(s, i) = c THEN i ELSE FindChar(s, c, i + 1)

DigitVal(c) ==
    CASE c = "0" -> 0 [] c = "1" -> 1 [] c = "2" -> 2 [] c = "3" -> 3
      [] c = "4" -> 4 [] c = "5" -> 5 [] c = "6" -> 6 [] c = "7" -> 7
      [] c = "8" -> 8 [] c = "9" -> 9

(***************************************************************************)
(* Parser results: nom's IResult, plus the panic outcome of an unwrap      *)
(***************************************************************************)
Ok(v, rest) == [st |-> "Ok", v |-> v, rest |-> rest]

Err == [st |-> "Err"]

Panic == [st |-> "Panic"]

(***************************************************************************)
(* u32 values, kept as two 16-bit limbs so that every 32-bit value is      *)
(* representable                                                           *)
(***************************************************************************)
Limb == 65536

U32(n) == [hi |-> n \div Limb, lo |-> n % Limb]

U32Fits31(u) == u.hi < 32768

\* value of a u32 below 2^31
U32Int(u) == u.hi * Limb + u.lo

\* `x as i32`: two's complement reinterpretation
U32AsI32(u) == IF u.hi < 32768 THEN u.hi * Limb + u.lo ELSE (u.hi - Limb) * Limb + u.lo

\* u > k for an integer 0 <= k < 2^31
U32Gt(u, k) == u.hi > k \div Limb \/ (u.hi = k \div Limb /\ u.lo > k % Limb)

\* u * 12 in 32 bits: the wrapped product and whether it overflowed
U32Mul12(u) ==
    LET lo12 == u.lo * 12
        hi12 == u.hi * 12 + lo12 \div Limb
    IN  [overflow |-> hi12 >= Limb, val |-> [hi |-> hi12 % Limb, lo |-> lo12 % Limb]]

\* u32::from_str on a run of ASCII digits; ok is FALSE when the value
\* exceeds u32::MAX
RECURSIVE U32FromDigits(_, _, _)
U32FromDigits(s, i, acc) ==
    IF i > Len(s) THEN [ok |-> TRUE, val |-> acc]
    ELSE LET lo10 == acc.lo * 10 + DigitVal(CharAt(s, i))
             hi10 == acc.hi * 10 + lo10 \div Limb
         IN  IF hi10 >= Limb THEN [ok |-> FALSE, val |-> U32(0)]
             ELSE U32FromDigits(s, i + 1, [hi |-> hi10, lo |-> lo10 % Limb])

\* str::parse::<u32>() on text made of digits and '.' only
ParseU32(s) ==
    IF Len(s) = 0 \/ SpanLen(s, AsciiDigit, 0) < Len(s)
    THEN [ok |-> FALSE, val |-> U32(0)]
    ELSE U32FromDigits(s, 1, U32(0))

\* value of a run of at most nine ASCII digits
RECURSIVE DigitsToInt(_, _, _)
DigitsToInt(s, i, acc) ==
    IF i > Len(s) THEN acc ELSE DigitsToInt(s, i + 1, acc * 10 + DigitVal(CharAt(s, i)))

(***************************************************************************)
(* Calendar dates (chrono::NaiveDate): proleptic Gregorian year, month, day *)
(***************************************************************************)
MinYear == -262143

MaxYear == 262142

Date(y, m, d) == [y |-> y, m |-> m, d |-> d]

\* NaiveDate::MIN
DateMin == Date(MinYear, 1, 1)

\* NaiveDate::MAX
DateMax == Date(MaxYear, 12, 31)

IsLeap(y) == y % 4 = 0 /\ (y % 100 # 0 \/ y % 400 = 0)

DaysInMonth(y, m) ==
    IF m = 2 THEN (IF IsLeap(y) THEN 29 ELSE 28)
    ELSE IF m \in {4, 6, 9, 11} THEN 30 ELSE 31

ValidYmd(y, m, d) ==
    /\ y >= MinYear /\ y <= MaxYear
    /\ m >= 1 /\ m <= 12
    /\ d >= 1 /\ d <= DaysInMonth(y, m)

\* NaiveDate::from_ymd_opt with month and day given as u32
from_ymd_opt(y, m, d) ==
    IF m.hi = 0 /\ d.hi = 0 /\ ValidYmd(y, m.lo, d.lo)
    THEN [some |-> TRUE, v |-> Date(y, m.lo, d.lo)]
    ELSE [some |-> FALSE, v |-> DateMin]

\* days from 1970-01-01 to the date
DayNumber(dt) ==
    LET y   == IF dt.m <= 2 THEN dt.y - 1 ELSE dt.y
        era == y \div 400
        yoe == y - era * 400
        mp  == (dt.m + 9) % 12
        doy == (153 * mp + 2) \div 5 + dt.d - 1
        doe == yoe * 365 + yoe \div 4 - yoe \div 100 + doy
    IN  era * 146097 + doe - 719468

\* the date that many days from 1970-01-01
DateOfDayNumber(n) ==
    LET z   == n + 719468
        era == z \div 146097
        doe == z - era * 146097
        yoe == (doe - doe \div 1460 + doe \div 36524 - doe \div 146096) \div 365
        doy == doe - (365 * yoe + yoe \div 4 - yoe \div 100)
        mp  == (5 * doy + 2) \div 153
        d   == doy - (153 * mp + 2) \div 5 + 1
        m   == IF mp < 10 THEN mp + 3 ELSE mp - 9
        y   == yoe + era * 400 + (IF m <= 2 THEN 1 ELSE 0)
    IN  Date(y, m, d)

\* NaiveDate::pred_opt().unwrap() : the previous day (today is never DateMin)
pred_opt(dt) == DateOfDayNumber(DayNumber(dt) - 1)

\* `date - TimeDelta::days(n)` for a u32 n: the subtraction panics
\* ("`NaiveDate - TimeDelta` overflowed") when it leaves [DateMin, DateMax]
SubDays(dt, n, per) ==
    LET room == (DayNumber(dt) - DayNumber(DateMin)) \div per
    IN  IF U32Gt(n, room) THEN Panic
        ELSE [st |-> "Ok", v |-> DateOfDayNumber(DayNumber(dt) - U32Int(n) * per)]

\* NaiveDate::checked_sub_months(Months::new(n)): same day of the month n
\* months earlier, clamped to the last day of that month
checked_sub_months(dt, n) ==
    IF n.hi = 0 /\ n.lo = 0 THEN [some |-> TRUE, v |-> dt]
    ELSE IF ~U32Fits31(n) THEN [some |-> FALSE, v |-> DateMin]
    ELSE LET months  == dt.y * 12 + dt.m - 1 - U32Int(n)
             year    == months \div 12
             month   == (months % 12) + 1
             day_max == DaysInMonth(year, month)
             day     == IF dt.d > day_max THEN day_max ELSE dt.d
         IN  IF ValidYmd(year, month, day)
             THEN [some |-> TRUE, v |-> Date(year, month, day)]
             ELSE [some |-> FALSE, v |-> DateMin]

(***************************************************************************)
(* nom primitives.  A parser maps its input to Ok(value, rest), to Err (a   *)
(* recoverable nom error: the caller goes on from the same input) or to    *)
(* Panic.                                                                  *)
(***************************************************************************)
\* sequencing: K runs on the result of a parser that succeeded
Then(r, K(_)) == IF r.st # "Ok" THEN r ELSE K(r)

\* alt: the next alternative runs only after a recoverable error
OrElse(r, next) == IF r.st # "Err" THEN r ELSE next

\* opt: a recoverable error becomes an absent value at the same input
opt(r, input) == IF r.st = "Err" THEN Ok([some |-> FALSE], input) ELSE r

\* map_res with a closure that returned Err
Reject(ok, r) == IF ok THEN r ELSE Err

\* take_while1(pred): the longest non-empty prefix of characters of cs
take_while1_at(input, n) == IF n = 0 THEN Err ELSE Ok(Take(input, n), Drop(input, n))

take_while1(input, cs) == take_while1_at(input, SpanLen(input, cs, 0))

\* tag(t)
tag(input, t) == IF StartsWith(input, t) THEN Ok(t, Drop(input, Len(t))) ELSE Err

\* alt((tag(ts[1]), tag(ts[2]), ...)): the first tag of the sequence that matches
RECURSIVE tag_alt(_, _, _)
tag_alt(input, ts, i) ==
    IF i > Len(ts) THEN Err
    ELSE IF StartsWith(input, ts[i]) THEN Ok(ts[i], Drop(input, Len(ts[i])))
    ELSE tag_alt(input, ts, i + 1)

\* space0, multispace0: the input after the optional blanks
skip0(input, cs) == Drop(input, SpanLen(input, cs, 0))

\* space1, multispace1
skip1(input, cs) == take_while1(input, cs)

(***************************************************************************)
(* Lexical atoms and date literals                                         *)
(***************************************************************************)
alpha1_utf8(input) == take_while1(input, Alphabetic)

\* at most max leading digits of s
DigitRun(s, max) ==
    IF SpanLen(s, AsciiDigit, 0) <= max THEN SpanLen(s, AsciiDigit, 0) ELSE max

\* %d at the end of the text: one or two digits and nothing after them
parse_day(y, m, s, dlen) ==
    IF dlen = 0 \/ Len(s) > dlen THEN [some |-> FALSE, v |-> DateMin]
    ELSE from_ymd_opt(y, U32(m), U32(DigitsToInt(s, 1, 0)))

\* "-%m-%d"
parse_month(y, s, mlen) ==
    IF mlen = 0 \/ ~StartsWith(Drop(s, mlen), "-") THEN [some |-> FALSE, v |-> DateMin]
    ELSE parse_day(y, DigitsToInt(Take(s, mlen), 1, 0), Drop(s, mlen + 1),
                   DigitRun(Drop(s, mlen + 1), 2))

\* %Y of neg and ylen digits, then "-%m-%d"
parse_year(neg, s, ylen) ==
    IF ylen = 0 \/ ylen > 9 \/ ~StartsWith(Drop(s, ylen), "-")
    THEN [some |-> FALSE, v |-> DateMin]
    ELSE parse_month((IF neg THEN -1 ELSE 1) * DigitsToInt(Take(s, ylen), 1, 0),
                     Drop(s, ylen + 1), DigitRun(Drop(s, ylen + 1), 2))

\* NaiveDate::parse_from_str(x, "%Y-%m-%d") on text made of digits and '-':
\* %Y is '-' and digits, or at most four digits when unsigned; %m and %d
\* are one or two digits; nothing may follow
parse_from_str(x) ==
    IF StartsWith(x, "-")
    THEN parse_year(TRUE, Drop(x, 1), SpanLen(Drop(x, 1), AsciiDigit, 0))
    ELSE parse_year(FALSE, x, DigitRun(x, 4))

\* map_res: the value of an optional date, or a recoverable error
date_or_err(dt, rest) == IF dt.some THEN Ok(dt.v, rest) ELSE Err

iso_date(input) ==
    Then(take_while1(input, AsciiDigit \cup {"-"}),
         LAMBDA run : date_or_err(parse_from_str(run.v), run.rest))

\* the rest of x.splitn(3, ".") after the first '.'
splitn2(head, tail, p2) ==
    IF p2 = 0 THEN <<head, tail>> ELSE <<head, Take(tail, p2 - 1), Drop(tail, p2)>>

\* x.splitn(3, "."): at most three parts, the last one keeps any further '.'
splitn3_at(x, p1) ==
    IF p1 = 0 THEN <<x>>
    ELSE splitn2(Take(x, p1 - 1), Drop(x, p1), FindChar(Drop(x, p1), ".", 1))

splitn3(x) == splitn3_at(x, FindChar(x, ".", 1))

\* the closure of cis_date on the parsed parts
cis_parts(parts) ==
    IF \E i \in 1..Len(parts) : ~parts[i].ok THEN [some |-> FALSE, v |-> DateMin]
    ELSE IF Len(parts) = 2 THEN from_ymd_opt(today.y, parts[2].val, parts[1].val)
    ELSE IF Len(parts) = 3
    THEN from_ymd_opt(U32AsI32(parts[3].val), parts[2].val, parts[1].val)
    ELSE [some |-> FALSE, v |-> DateMin]

parse_parts(texts) == [i \in 1..Len(texts) |-> ParseU32(texts[i])]

cis_date(input) ==
    Then(take_while1(input, AsciiDigit \cup {"."}),
         LAMBDA run : date_or_err(cis_parts(parse_parts(splitn3(run.v))), run.rest))

parse_today(input) ==
    Then(tag_alt(input, <<"today", "now", "SEGODN@", "SEYQAS">>, 1),
         LAMBDA kw : Ok(today, kw.rest))

yesterday(input) ==
    Then(tag_alt(input, <<"yesterday", "VQERA">>, 1),
         LAMBDA kw : Ok(pred_opt(today), kw.rest))

\* the day before yesterday resolved as yesterday
tdby_one_day_back(input) ==
    Then(tag(input, "POZAVQERA"),
         LAMBDA kw : Ok(pred_opt(today), kw.rest))

tdby(input) ==
    Then(tag(input, "POZAVQERA"),
         LAMBDA kw : Ok(pred_opt(pred_opt(today)), kw.rest))

(***************************************************************************)
(* Relative offsets                                                        *)
(***************************************************************************)
\* TimeUnit::from_str
TimeUnit_from_str(s) ==
    CASE s \in {"days", "day", "DENK", "DNEY", "DN@"} -> "Days"
      [] s \in {"weeks", "week", "NEDEL@", "NEDELI", "NEDELK", "NEDELF"} -> "Weeks"
      [] s \in {"months", "month", "MES@CEV", "MES@CA", "MES@C"} -> "Months"
      [] s \in {"years", "year", "GODA", "GOD", "LET"} -> "Years"
      [] OTHER -> "Err"

\* .unwrap() of an optional date
unwrap(dt) == IF dt.some THEN [st |-> "Ok", v |-> dt.v] ELSE Panic

\* today minus amount * 12 months, the product taken in 32 bits: it traps
\* with overflow checks and wraps without
sub_years(prod) ==
    IF prod.overflow /\ overflow_checks THEN Panic
    ELSE unwrap(checked_sub_months(today, prod.val))

\* years subtracted as that many months
into_date_years_as_months(amount, unit) ==
    CASE unit = "Days" -> SubDays(today, amount, 1)
      [] unit = "Weeks" -> SubDays(today, amount, 7)
      [] unit \in {"Months", "Years"} -> unwrap(checked_sub_months(today, amount))

\* TimeOffset::into_date: today minus amount units; amount is a u32
into_date(amount, unit) ==
    CASE unit = "Days" -> SubDays(today, amount, 1)
      [] unit = "Weeks" -> SubDays(today, amount, 7)
      [] unit = "Months" -> unwrap(checked_sub_months(today, amount))
      [] unit = "Years" -> sub_years(U32Mul12(amount))

\* u32::from_str(s).unwrap()
u32_unwrap(n, rest) == IF n.ok THEN Ok(n.val, rest) ELSE Panic

\* number: digit1 mapped through u32::from_str(..).unwrap()
number(input) ==
    Then(take_while1(input, AsciiDigit),
         LAMBDA run : u32_unwrap(U32FromDigits(run.v, 1, U32(0)), run.rest))

time_unit(input) ==
    Then(alpha1_utf8(input),
         LAMBDA word : Reject(TimeUnit_from_str(word.v) # "Err",
                              Ok(TimeUnit_from_str(word.v), word.rest)))

time_suffix_en(input) ==
    Then(skip1(input, Space),
         LAMBDA sp : tag_alt(sp.rest, <<"ago", "before", "NAZAD">>, 1))

\* (number, space1, time_unit, opt(time_suffix_en)) as a TimeOffset
with_number(input) ==
    Then(number(input), LAMBDA num :
    Then(skip1(num.rest, Space), LAMBDA sp :
    Then(time_unit(sp.rest), LAMBDA unit :
    Then(opt(time_suffix_en(unit.rest), unit.rest), LAMBDA suffix :
         Ok([amount |-> num.v, unit |-> unit.v], suffix.rest)))))

\* a unit alone read as an offset of amount 1
without_number_bare(input) ==
    Then(time_unit(input), LAMBDA unit :
    Then(opt(time_suffix_en(unit.rest), unit.rest), LAMBDA suffix :
         Ok([amount |-> U32(1), unit |-> unit.v], suffix.rest)))

\* pair(time_unit, time_suffix_en) as a TimeOffset of amount 1
without_number(input) ==
    Then(time_unit(input), LAMBDA unit :
    Then(time_suffix_en(unit.rest), LAMBDA suffix :
         Ok([amount |-> U32(1), unit |-> unit.v], suffix.rest)))

\* map(.., TimeOffset::into_date)
offset_date(dt, rest) == IF dt.st = "Ok" THEN Ok(dt.v, rest) ELSE Panic

parse_offset(input) ==
    Then(OrElse(with_number(input), without_number(input)),
         LAMBDA offset : offset_date(into_date(offset.v.amount, offset.v.unit),
                                     offset.rest))

\* a failed CIS alternative leaves the cursor after the run it read
parse_date_cursor_moved(input) ==
    OrElse(parse_today(input),
    OrElse(yesterday(input),
    OrElse(tdby(input),
    OrElse(cis_date(input),
    OrElse(iso_date(skip0(input, AsciiDigit \cup {"."})),
           parse_offset(skip0(input, AsciiDigit \cup {"."})))))))

parse_date(input) ==
    OrElse(parse_today(input),
    OrElse(yesterday(input),
    OrElse(tdby(input),
    OrElse(cis_date(input),
    OrElse(iso_date(input),
           parse_offset(input))))))

(***************************************************************************)
(* Attribute, boundaries and range grammars                                *)
(***************************************************************************)
\* every word other than created/SOZDANO read as Updated
Attr_from_str_lenient(s) ==
    CASE s \in {"created", "SOZDANO"} -> "Created"
      [] OTHER -> "Updated"

\* Attr::from_str
Attr_from_str(s) ==
    CASE s \in {"updated", "OBNOVLENO"} -> "Updated"
      [] s \in {"created", "SOZDANO"} -> "Created"
      [] OTHER -> "Err"

attr(input) ==
    Then(alpha1_utf8(input),
         LAMBDA word : Reject(Attr_from_str(word.v) # "Err",
                              Ok(Attr_from_str(word.v), word.rest)))

\* Boundary::try_from: the side a boundary tag names
Boundary_try_from(t) ==
    CASE t \in {"from", "after", "SO", "S", "OT", "POSLE", "POZJE"} -> "From"
      [] t \in {"to", "until", "till", "before", "DO", "PO", "RANKWE", "RANEE"} -> "To"
      [] OTHER -> "Err"

\* the date is parsed before the tag is looked up
boundary(input) ==
    Then(alpha1_utf8(input), LAMBDA word :
    Then(skip1(word.rest, Multispace), LAMBDA sp :
    Then(parse_date(sp.rest), LAMBDA dt :
         Reject(Boundary_try_from(word.v) # "Err",
                Ok([side |-> Boundary_try_from(word.v), date |-> dt.v], dt.rest)))))

Some(dt) == [some |-> TRUE, v |-> dt]

None == [some |-> FALSE, v |-> DateMin]

\* the second round of many_m_n(1, 2, ..): a boundary that fails leaves the
\* input where the first one ended
second_boundary(b1, b2) ==
    IF b2.st = "Panic" THEN Panic
    ELSE IF b2.st = "Err" THEN Ok(<<b1.v>>, b1.rest)
    ELSE Ok(<<b1.v, b2.v>>, b2.rest)

\* a failing second boundary fails the whole repetition
boundaries_second_required(input) ==
    Then(boundary(skip0(input, Multispace)), LAMBDA b1 :
    Then(boundary(skip0(b1.rest, Multispace)), LAMBDA b2 :
         Ok(<<b1.v, b2.v>>, b2.rest)))

\* many_m_n(1, 2, preceded(multispace0, boundary)): one or two boundaries
boundaries(input) ==
    Then(boundary(skip0(input, Multispace)),
         LAMBDA b1 : second_boundary(b1, boundary(skip0(b1.rest, Multispace))))

\* a single To boundary read as a lower bound
range_of_single_to_as_from(x) ==
    IF Len(x) = 1
    THEN [ok |-> TRUE, v |-> [lower |-> Some(x[1].date), upper |-> None]]
    ELSE IF x[1].side = "From" /\ x[2].side = "To"
    THEN [ok |-> TRUE, v |-> [lower |-> Some(x[1].date), upper |-> Some(x[2].date)]]
    ELSE IF x[1].side = "To" /\ x[2].side = "From"
    THEN [ok |-> TRUE, v |-> [lower |-> Some(x[2].date), upper |-> Some(x[1].date)]]
    ELSE [ok |-> FALSE, v |-> [lower |-> None, upper |-> None]]

\* two boundaries taken in the order written, whatever their sides
range_of_by_position(x) ==
    IF Len(x) = 1 /\ x[1].side = "From"
    THEN [ok |-> TRUE, v |-> [lower |-> Some(x[1].date), upper |-> None]]
    ELSE IF Len(x) = 1 /\ x[1].side = "To"
    THEN [ok |-> TRUE, v |-> [lower |-> None, upper |-> Some(x[1].date)]]
    ELSE [ok |-> TRUE, v |-> [lower |-> Some(x[1].date), upper |-> Some(x[2].date)]]

\* two boundaries of the same side accepted, the first one kept
range_of_same_side_kept(x) ==
    IF x[1].side = "From" /\ (Len(x) = 1 \/ x[2].side = "From")
    THEN [ok |-> TRUE, v |-> [lower |-> Some(x[1].date), upper |-> None]]
    ELSE IF x[1].side = "To" /\ (Len(x) = 1 \/ x[2].side = "To")
    THEN [ok |-> TRUE, v |-> [lower |-> None, upper |-> Some(x[1].date)]]
    ELSE IF x[1].side = "From"
    THEN [ok |-> TRUE, v |-> [lower |-> Some(x[1].date), upper |-> Some(x[2].date)]]
    ELSE [ok |-> TRUE, v |-> [lower |-> Some(x[2].date), upper |-> Some(x[1].date)]]

\* the closure of date_range: the match on the one or two boundaries read
range_of(x) ==
    IF Len(x) = 1 /\ x[1].side = "From"
    THEN [ok |-> TRUE, v |-> [lower |-> Some(x[1].date), upper |-> None]]
    ELSE IF Len(x) = 1 /\ x[1].side = "To"
    THEN [ok |-> TRUE, v |-> [lower |-> None, upper |-> Some(x[1].date)]]
    ELSE IF x[1].side = "From" /\ x[2].side = "To"
    THEN [ok |-> TRUE, v |-> [lower |-> Some(x[1].date), upper |-> Some(x[2].date)]]
    ELSE IF x[1].side = "To" /\ x[2].side = "From"
    THEN [ok |-> TRUE, v |-> [lower |-> Some(x[2].date), upper |-> Some(x[1].date)]]
    ELSE [ok |-> FALSE, v |-> [lower |-> None, upper |-> None]]

\* map_res: the value of the closure, or a recoverable error
range_or_err(r, rest) == IF r.ok THEN Ok(r.v, rest) ELSE Err

date_range(input) ==
    Then(boundaries(input), LAMBDA bs : range_or_err(range_of(bs.v), bs.rest))

\* the closure of both "last" grammars: the range [today - amount units, today]
last_range(start, rest) ==
    IF start.st # "Ok" THEN Panic
    ELSE Ok([lower |-> Some(start.v), upper |-> Some(today)], rest)

\* num.unwrap_or(1)
unwrap_or_1(num) == IF num.v.some THEN num.v.v ELSE U32(1)

\* opt(number) as an optional u32
opt_number(input) ==
    opt(Then(number(input), LAMBDA num : Ok(Some(num.v), num.rest)), input)

last_something_en(input) ==
    Then(tag(input, "last"), LAMBDA kw :
    Then(opt_number(skip0(kw.rest, Space)), LAMBDA num :
    Then(time_unit(skip0(num.rest, Space)), LAMBDA unit :
         last_range(into_date(unwrap_or_1(num), unit.v), unit.rest))))

last_something_ru(input) ==
    Then(opt(tag(input, "ZA"), input), LAMBDA za :
    Then(opt_number(skip0(za.rest, Space)), LAMBDA num :
    Then(tag_alt(skip0(num.rest, Space),
                 <<"PROWLXY", "PROWLXH", "PROWLA@", "PROWLUF",
                   "POSLEDNIH", "POSLEDNIY", "POSLEDNFF">>, 1), LAMBDA adj :
    Then(skip1(adj.rest, Space), LAMBDA sp :
    Then(time_unit(sp.rest), LAMBDA unit :
         last_range(into_date(unwrap_or_1(num), unit.v), unit.rest))))))

\* the day taken as a lower bound only
one_day_range_open(input) ==
    Then(parse_date(input),
         LAMBDA dt : Ok([lower |-> Some(dt.v), upper |-> None], dt.rest))

one_day_range(input) ==
    Then(parse_date(input),
         LAMBDA dt : Ok([lower |-> Some(dt.v), upper |-> Some(dt.v)], dt.rest))

\* lower.unwrap_or(NaiveDate::MIN)..=upper.unwrap_or(NaiveDate::MAX)
filter_of(a, r) ==
    [attr  |-> a,
     lower |-> IF r.lower.some THEN r.lower.v ELSE DateMin,
     upper |-> IF r.upper.some THEN r.upper.v ELSE DateMax]

\* a failure of either part is a failure of the whole, with no partial value
whole(r) == IF r.st = "Panic" THEN Panic ELSE IF r.st = "Err" THEN Err ELSE r

attr_and_range(input) ==
    whole(Then(attr(skip0(input, Multispace)), LAMBDA a :
          Then(skip1(a.rest, Multispace), LAMBDA sp :
          Then(OrElse(date_range(sp.rest),
               OrElse(one_day_range(sp.rest),
               OrElse(last_something_ru(sp.rest),
                      last_something_en(sp.rest)))),
               LAMBDA r : Ok(filter_of(a.v, r.v), r.rest)))))

(***************************************************************************)
(* Inputs                                                                  *)
(***************************************************************************)
\* largest amount N written out in "last N <unit>" phrases
MaxAmount == 13

\* largest number of blanks between two words of a phrase
MaxGap == 2

RECURSIVE Spaces(_)
Spaces(g) == IF g = 0 THEN "" ELSE " " \o Spaces(g - 1)

DigitText(n) == CharAt("0123456789", n + 1)

RECURSIVE NatText(_)
NatText(n) == IF n < 10 THEN DigitText(n) ELSE NatText(n \div 10) \o DigitText(n % 10)

Todays == {Date(2025, 5, 4), Date(2024, 2, 29), Date(2025, 3, 31),
           Date(2024, 3, 1), Date(2025, 1, 1)}

AttrWords == {"updated", "created", "OBNOVLENO", "SOZDANO"}

NonAttrWords == {"update", "today", "from", "last", "SOZDAN"}

FromTags == {"from", "after", "SO", "S", "OT", "POSLE", "POZJE"}

ToTags == {"to", "until", "till", "before", "DO", "PO", "RANKWE", "RANEE"}

NonTags == {"last", "since"}

NamedTerms == {"today", "now", "SEGODN@", "SEYQAS", "yesterday", "VQERA", "POZAVQERA"}

CisTerms == {"02.03.2022", "31.08"}

IsoTerms == {"2023-06-07", "2023-07-08"}

LiteralTerms == NamedTerms \cup CisTerms \cup IsoTerms

\* offsets written without a suffix
BareOffsetTerms == {"3 months", "5 days", "2 NEDELI"}

OffsetTerms == BareOffsetTerms \cup
               {"3 weeks ago", "1 year ago", "3 DN@ NAZAD", "week ago", "day before"}

GoodTerms == LiteralTerms \cup OffsetTerms

\* text that parse_date rejects
BadTerms == {"foo", "32.01", "week", "2023-13-01"}

\* offsets whose amount does not fit the arithmetic
HugeTerms == {"99999999999 days", "4294967295 weeks", "178956971 years ago"}

EnUnits == {"days", "day", "weeks", "week", "months", "month", "years", "year"}

RuUnits == {"DENK", "DNEY", "DN@", "NEDEL@", "NEDELI", "NEDELK", "NEDELF",
            "MES@CEV", "MES@CA", "MES@C", "GODA", "GOD", "LET"}

RuLast == {"PROWLXY", "PROWLXH", "PROWLA@", "PROWLUF",
           "POSLEDNIH", "POSLEDNIY", "POSLEDNFF"}

\* amounts as written: omitted, 0..MaxAmount, and values near the 32-bit limits
SmallAmounts == {""} \cup {NatText(n) : n \in 0..MaxAmount}

HugeAmounts == {"300000", "100000000", "178956971", "357913942",
                "4294967295", "4294967296", "99999999999"}

Tails == {"", " milk"}

\* date terms used where two boundaries are combined
PairTerms == {"today", "VQERA", "POZAVQERA", "31.08", "2023-06-07",
              "3 months", "3 weeks ago", "week ago"}

\* <attr> <tag> <date> <tag> <date>
FormsTwo ==
    [kind : {"two"}, lead : {""}, a : {"created"},
     t1 : FromTags \cup ToTags \cup NonTags, d1 : {"2023-06-07"},
     t2 : FromTags \cup ToTags \cup NonTags, d2 : {"31.08"},
     gap : {1}, tail : {""}]
    \cup
    [kind : {"two"}, lead : {""}, a : {"updated"},
     t1 : {"from", "before"}, d1 : PairTerms,
     t2 : {"to", "before", "after"}, d2 : PairTerms \cup BadTerms,
     gap : {1}, tail : {""}]
    \cup
    [kind : {"two"}, lead : {""}, a : {"OBNOVLENO", "SOZDANO", "update"},
     t1 : {"S", "PO"}, d1 : {"02.03.2022"},
     t2 : {"S", "PO"}, d2 : {"31.08", "foo", "99999999999 days"},
     gap : 1..MaxGap, tail : Tails]

\* <attr> <tag> <date>
FormsOne ==
    [kind : {"one"}, lead : {""}, a : {"updated"},
     t1 : FromTags \cup ToTags \cup NonTags,
     d1 : GoodTerms \cup BadTerms \cup HugeTerms, gap : {1}, tail : {""}]
    \cup
    [kind : {"one"}, lead : {""}, a : {"SOZDANO"}, t1 : {"S", "before", "since"},
     d1 : {"yesterday", "3 months", "foo"}, gap : 1..MaxGap, tail : Tails]

\* <attr> <date>
FormsDay ==
    [kind : {"day"}, lead : {""}, a : AttrWords \cup NonAttrWords,
     d1 : GoodTerms \cup BadTerms \cup HugeTerms, gap : {1}, tail : {""}]
    \cup
    [kind : {"day"}, lead : {"", " ", "\n\t"}, a : {"created", "update"},
     d1 : {"today", "31.08", "3 weeks ago", "foo", "99999999999 days"},
     gap : 1..MaxGap, tail : Tails]

\* <attr> last [N] <unit>  and  <attr> [ZA] [N] <last-adjective> <unit>
FormsLast ==
    [kind : {"last"}, lead : {""}, a : {"updated"}, lang : {"en"}, za : {FALSE},
     n : SmallAmounts \cup HugeAmounts, adj : {"last"},
     unit : EnUnits \cup {"NEDELF", "fortnight"}, gap : {1}, tail : {""}]
    \cup
    [kind : {"last"}, lead : {""}, a : {"OBNOVLENO"}, lang : {"ru"}, za : BOOLEAN,
     n : {"", "3"}, adj : RuLast,
     unit : RuUnits \cup {"week"}, gap : {1}, tail : {""}]
    \cup
    [kind : {"last"}, lead : {""}, a : {"created", "update"}, lang : {"en", "ru"},
     za : BOOLEAN, n : {"", "2"}, adj : {"last", "POSLEDNIH"},
     unit : {"weeks", "GODA"}, gap : 1..MaxGap, tail : {" milk"}]

\* runs of digits and '.' handed to the CIS literal parser, as their parts
CisDays == {"", "0", "1", "29", "31", "32"}

CisMonths == {"", "0", "2", "02", "12", "13"}

CisYears == {"", "0", "2024", "262142", "262143", "2147483648",
             "4294967295", "4294967296"}

CisParts ==
    {<<d>> : d \in CisDays \ {""}}
    \cup {<<d, m>> : d \in CisDays, m \in CisMonths}
    \cup {<<d, m, y>> : d \in CisDays, m \in CisMonths, y \in CisYears}
    \cup {<<d, "02", "2024", x>> : d \in {"1", "29"}, x \in {"", "5"}}

FormsCis == [kind : {"cis"}, parts : CisParts, tail : {"", "-05"}]

Suffixes == {"ago", "before", "NAZAD"}

\* [N] <unit> [<suffix>], handed to the relative-offset parser
FormsOffset ==
    [kind : {"offset"}, n : {"", "0", "1", "3", "13"},
     unit : EnUnits \cup RuUnits \cup {"fortnight", "ago"},
     suffix : {""} \cup Suffixes, gap : 1..MaxGap, tail : Tails]

\* <attr> <unit>
FormsUnit ==
    [kind : {"day"}, lead : {""}, a : {"updated", "SOZDANO"},
     d1 : EnUnits \cup RuUnits, gap : {1}, tail : Tails]

\* words that begin with a named-day keyword
PrefixWords == {"nowhere", "todayish", "yesterdays", "VQERAWNIY", "SEYQASJE"}

\* <attr> <word>
FormsPrefix ==
    [kind : {"day"}, lead : {""}, a : {"updated", "SOZDANO"},
     d1 : PrefixWords, gap : {1}, tail : Tails]

Forms == FormsTwo \cup FormsOne \cup FormsDay \cup FormsLast \cup FormsCis
         \cup FormsOffset \cup FormsUnit \cup FormsPrefix

RECURSIVE JoinDots(_, _)
JoinDots(parts, i) ==
    IF i = Len(parts) THEN parts[i] ELSE parts[i] \o "." \o JoinDots(parts, i + 1)

\* the text of a phrase
PhraseOf(f) ==
    LET sp == Spaces(IF f.kind = "cis" THEN 0 ELSE f.gap)
    IN  CASE f.kind = "two" ->
               f.lead \o f.a \o sp \o f.t1 \o sp \o f.d1 \o sp \o f.t2 \o sp \o f.d2
                      \o f.tail
          [] f.kind = "one" -> f.lead \o f.a \o sp \o f.t1 \o sp \o f.d1 \o f.tail
          [] f.kind = "day" -> f.lead \o f.a \o sp \o f.d1 \o f.tail
          [] f.kind = "last" ->
               f.lead \o f.a \o sp \o (IF f.za THEN "ZA" \o sp ELSE "")
                   \o (IF f.lang = "en" THEN f.adj \o sp ELSE "")
                   \o (IF f.n = "" THEN "" ELSE f.n \o sp)
                   \o (IF f.lang = "ru" THEN f.adj \o sp ELSE "")
                   \o f.unit \o f.tail
          [] f.kind = "cis" -> JoinDots(f.parts, 1) \o f.tail
          [] f.kind = "offset" ->
               (IF f.n = "" THEN "" ELSE f.n \o sp) \o f.unit
                   \o (IF f.suffix = "" THEN "" ELSE sp \o f.suffix) \o f.tail

(***************************************************************************)
(* ISO rendering of a date (the Display of chrono::NaiveDate)              *)
(***************************************************************************)
RECURSIVE ZeroPad(_, _)
ZeroPad(s, w) == IF Len(s) >= w THEN s ELSE ZeroPad("0" \o s, w)

\* the year: four digits from 0000 to 9999, otherwise a sign and at least
\* four digits
year_text(y) ==
    IF y >= 0 /\ y <= 9999 THEN ZeroPad(NatText(y), 4)
    ELSE IF y < 0 THEN "-" \o ZeroPad(NatText(-y), 4)
    ELSE "+" \o ZeroPad(NatText(y), 4)

to_string(dt) ==
    year_text(dt.y) \o "-" \o ZeroPad(NatText(dt.m), 2) \o "-" \o ZeroPad(NatText(dt.d), 2)

(***************************************************************************)
(* The state machine: a phrase is given, then a parser is applied to it    *)
(***************************************************************************)
NoResult == [st |-> "None"]

\* no command has run
NoCommand == [cmd |-> "none"]

Init ==
    /\ today \in Todays
    /\ overflow_checks \in BOOLEAN
    /\ form \in Forms
    /\ phrase = PhraseOf(form)
    /\ call = "none"
    /\ result = NoResult
    /\ tasks = <<>>
    /\ now = 0
    /\ last = NoCommand

\* filter_parser::attr_and_range(&task), as called by the find command
AttrAndRange ==
    /\ call = "none"
    /\ form.kind \in {"two", "one", "day", "last"}
    /\ call' = "attr_and_range"
    /\ result' = attr_and_range(phrase)
    /\ UNCHANGED <<today, overflow_checks, form, phrase, tasks, now, last>>

\* cis_date(text), as called by tests::test_parse_ru_date
CisDate ==
    /\ call = "none"
    /\ form.kind = "cis"
    /\ call' = "cis_date"
    /\ result' = cis_date(phrase)
    /\ UNCHANGED <<today, overflow_checks, form, phrase, tasks, now, last>>

\* parse_offset(text)
ParseOffset ==
    /\ call = "none"
    /\ form.kind = "offset"
    /\ call' = "parse_offset"
    /\ result' = parse_offset(phrase)
    /\ UNCHANGED <<today, overflow_checks, form, phrase, tasks, now, last>>

\* both dates of an accepted filter rendered as ISO text and read back
\* with iso_date
IsoRoundTrip ==
    /\ call = "attr_and_range"
    /\ result.st = "Ok"
    /\ call' = "iso_round_trip"
    /\ result' = [st    |-> "Trip",
                  v     |-> result.v,
                  lower |-> iso_date(to_string(result.v.lower)),
                  upper |-> iso_date(to_string(result.v.upper))]
    /\ UNCHANGED <<today, overflow_checks, form, phrase, tasks, now, last>>

\* today() of the test build
TestToday == Date(2025, 5, 4)

\* the parsers of the grammar
ParserNames ==
    {"alpha1_utf8", "iso_date", "cis_date", "parse_today", "yesterday", "tdby",
     "number", "time_unit", "time_suffix_en", "parse_offset", "parse_date",
     "attr", "boundary", "date_range", "last_something_en", "last_something_ru",
     "one_day_range", "attr_and_range"}

\* the parser of that name applied to input
Run(name, input) ==
    CASE name = "alpha1_utf8" -> alpha1_utf8(input)
      [] name = "iso_date" -> iso_date(input)
      [] name = "cis_date" -> cis_date(input)
      [] name = "parse_today" -> parse_today(input)
      [] name = "yesterday" -> yesterday(input)
      [] name = "tdby" -> tdby(input)
      [] name = "number" -> number(input)
      [] name = "time_unit" -> time_unit(input)
      [] name = "time_suffix_en" -> time_suffix_en(input)
      [] name = "parse_offset" -> parse_offset(input)
      [] name = "parse_date" -> parse_date(input)
      [] name = "attr" -> attr(input)
      [] name = "boundary" -> boundary(input)
      [] name = "date_range" -> date_range(input)
      [] name = "last_something_en" -> last_something_en(input)
      [] name = "last_something_ru" -> last_something_ru(input)
      [] name = "one_day_range" -> one_day_range(input)
      [] name = "attr_and_range" -> attr_and_range(input)

\* positions of a text where a word or a run of blanks starts
Cuts(s) ==
    {0} \cup {i \in 1..(Len(s) - 1) :
                 CharAt(s, i) \in Multispace \/ CharAt(s, i + 1) \in Multispace}

\* every parser of the grammar applied at one position of the phrase
SubParsers ==
    /\ call = "none"
    /\ today = TestToday
    /\ \E i \in Cuts(phrase) :
           result' = [st    |-> "Subs",
                      input |-> Drop(phrase, i),
                      res   |-> [name \in ParserNames |-> Run(name, Drop(phrase, i))]]
    /\ call' = "sub_parsers"
    /\ UNCHANGED <<today, overflow_checks, form, phrase, tasks, now, last>>

Next == AttrAndRange \/ CisDate \/ ParseOffset \/ IsoRoundTrip \/ SubParsers

Spec == Init /\ [][Next]_vars

(***************************************************************************)
(* usize values (64 bits), kept as four 16-bit limbs, most significant      *)
(* first                                                                   *)
(***************************************************************************)
Usize(n) == <<0, 0, 0, n>>

UsizeMax == <<Limb - 1, Limb - 1, Limb - 1, Limb - 1>>

UsizeLess(a, b) ==
    \E i \in 1..4 : a[i] < b[i] /\ \A j \in 1..(i - 1) : a[j] = b[j]

\* a + 1 in 64 bits: the wrapped sum and whether it overflowed
UsizeInc(a) ==
    IF a[4] < Limb - 1 THEN [overflow |-> FALSE, val |-> <<a[1], a[2], a[3], a[4] + 1>>]
    ELSE IF a[3] < Limb - 1 THEN [overflow |-> FALSE, val |-> <<a[1], a[2], a[3] + 1, 0>>]
    ELSE IF a[2] < Limb - 1 THEN [overflow |-> FALSE, val |-> <<a[1], a[2] + 1, 0, 0>>]
    ELSE IF a[1] < Limb - 1 THEN [overflow |-> FALSE, val |-> <<a[1] + 1, 0, 0, 0>>]
    ELSE [overflow |-> TRUE, val |-> <<0, 0, 0, 0>>]

\* a * 10 + d, with the carry out of the top limb
UsizeMul10Add(a, d) ==
    LET x4 == a[4] * 10 + d
        x3 == a[3] * 10 + x4 \div Limb
        x2 == a[2] * 10 + x3 \div Limb
        x1 == a[1] * 10 + x2 \div Limb
    IN  [overflow |-> x1 >= Limb, val |-> <<x1 % Limb, x2 % Limb, x3 % Limb, x4 % Limb>>]

RECURSIVE UsizeFromDigits(_, _, _)
UsizeFromDigits(s, i, acc) ==
    IF i > Len(s) THEN [ok |-> TRUE, val |-> acc]
    ELSE IF UsizeMul10Add(acc, DigitVal(CharAt(s, i))).overflow
    THEN [ok |-> FALSE, val |-> Usize(0)]
    ELSE UsizeFromDigits(s, i + 1, UsizeMul10Add(acc, DigitVal(CharAt(s, i))).val)

\* str::parse::<usize>(): decimal digits after an optional '+'
usize_digits(s) ==
    IF Len(s) = 0 \/ SpanLen(s, AsciiDigit, 0) < Len(s)
    THEN [ok |-> FALSE, val |-> Usize(0)]
    ELSE UsizeFromDigits(s, 1, Usize(0))

parse_usize(s) == IF StartsWith(s, "+") THEN usize_digits(Drop(s, 1)) ELSE usize_digits(s)

\* str::trim
RECURSIVE TrimEnd(_)
TrimEnd(s) ==
    IF Len(s) > 0 /\ CharAt(s, Len(s)) \in Multispace THEN TrimEnd(Take(s, Len(s) - 1))
    ELSE s

trim(s) == TrimEnd(skip0(s, Multispace))

(***************************************************************************)
(* The task store (struct Tasks) and its operations                        *)
(***************************************************************************)
\* Utc::now() during the command that runs at step now + 1: the day of the
\* clock and a tick that grows with every command
utc_now == [day |-> today, tick |-> now + 1]

\* Status::is_visible
is_visible(status) == status \in {"todo", "done"}

\* Task::set_status
set_status(task, status) == [task EXCEPT !.status = status, !.updated_at = utc_now]

\* Task::change_title
change_title(task, new_title) == [task EXCEPT !.title = new_title, !.updated_at = utc_now]

\* the comments after Task::add_comment
new_comments(old, comment) ==
    IF comment.kind = "Full" THEN comment.text
    ELSE IF comment.text = "" THEN old
    ELSE IF old = "" THEN comment.text
    ELSE old \o "\n" \o comment.text

\* Task::add_comment: the time is touched only when the comments changed
add_comment(task, comment) ==
    IF new_comments(task.comments, comment) = task.comments THEN task
    ELSE [task EXCEPT !.comments = new_comments(task.comments, comment),
                      !.updated_at = utc_now]

\* Tasks::set_status_idx on an index of the store
set_status_idx(idx, status) == [tasks EXCEPT ![idx] = set_status(tasks[idx], status)]

\* Vec::remove(idx)
remove(idx) == SubSeq(tasks, 1, idx - 1) \o SubSeq(tasks, idx + 1, Len(tasks))

\* Tasks::remove_dropped
remove_dropped == SelectSeq(tasks, LAMBDA t : is_visible(t.status))

\* Tasks::drop_done
drop_done ==
    [i \in 1..Len(tasks) |->
        IF tasks[i].status = "done" THEN set_status(tasks[i], "drop") ELSE tasks[i]]

\* the greatest id of the store, 0 when it is empty
RECURSIVE max_id(_, _)
max_id(i, acc) ==
    IF i > Len(tasks) THEN acc
    ELSE max_id(i + 1, IF UsizeLess(acc, tasks[i].id) THEN tasks[i].id ELSE acc)

\* Tasks::next_loc: max + 1 in usize, which traps with overflow checks and
\* wraps without
next_loc == UsizeInc(max_id(1, Usize(0)))

\* the task Tasks::add pushes
new_task(id, title, status) ==
    [id |-> id, status |-> status, title |-> title, comments |-> "",
     created_at |-> utc_now, updated_at |-> utc_now]

\* Candidate::check for the needle and for its keyboard-layout translation:
\* a needle that is the number of the task's id matches by id; textual is
\* what the comparison of the needle with the title and the comments gave
check(needle, task, textual) ==
    IF parse_usize(needle).ok /\ parse_usize(needle).val = task.id THEN "ById"
    ELSE IF textual THEN "Text" ELSE "None"

Indices == [i \in 1..Len(tasks) |-> i]

\* the indices at which the loop of Tasks::find returns at once
by_id_hits(needle, show_dropped) ==
    {i \in 1..Len(tasks) :
        /\ check(needle, tasks[i], FALSE) = "ById"
        /\ show_dropped \/ is_visible(tasks[i].status)}

Min(S) == CHOOSE x \in S : \A y \in S : x <= y

\* the candidates pushed by the loop, after the retain of visible tasks
candidates(needle, show_dropped, textual) ==
    SelectSeq(Indices, LAMBDA i :
        /\ check(needle, tasks[i], textual[i]) # "None"
        /\ show_dropped \/ is_visible(tasks[i].status))

\* a task in drop status matched by id is returned whatever show_dropped is
find_dropped_by_id(needle, show_dropped, empty_show_all, textual) ==
    IF needle = "" THEN (IF empty_show_all THEN Indices ELSE <<>>)
    ELSE IF by_id_hits(needle, TRUE) # {} THEN <<Min(by_id_hits(needle, TRUE))>>
    ELSE candidates(needle, show_dropped, textual)

\* Tasks::find on a needle already trimmed and lowercased: the indices of
\* the tasks found, in store order
find(needle, show_dropped, empty_show_all, textual) ==
    IF needle = "" THEN (IF empty_show_all THEN Indices ELSE <<>>)
    ELSE IF by_id_hits(needle, show_dropped) # {}
    THEN <<Min(by_id_hits(needle, show_dropped))>>
    ELSE candidates(needle, show_dropped, textual)

\* the first of the listed tasks that has the id typed, 0 for None
chosen(listed, id) ==
    IF id.ok /\ \E k \in 1..Len(listed) : tasks[listed[k]].id = id.val
    THEN listed[Min({k \in 1..Len(listed) : tasks[listed[k]].id = id.val})]
    ELSE 0

\* the match on the candidates in Tasks::select_interactive
pick(listed, typed) ==
    IF Len(listed) = 0 THEN 0
    ELSE IF Len(listed) = 1 THEN listed[1]
    ELSE chosen(listed, parse_usize(trim(typed)))

\* Tasks::select_interactive: the index selected, 0 for None
select_interactive(needle, show_dropped, textual, typed) ==
    pick(find(trim(needle), show_dropped, FALSE, textual), typed)

(***************************************************************************)
(* The commands that change the store.  Every command loads the store,     *)
(* works on it and saves it; a command that panics saves nothing.          *)
(***************************************************************************)
\* largest number of commands in a run
MaxSteps == 1

Statuses == {"todo", "done", "drop"}

IdSet == {Usize(0), Usize(1), Usize(2), UsizeMax}

\* a task as loaded from the tasks file
LoadedTask(id, status, updated) ==
    [id |-> id, status |-> status, title |-> "a", comments |-> "",
     created_at |-> [day |-> Date(2022, 3, 2), tick |-> 0],
     updated_at |-> [day |-> updated, tick |-> 0]]

\* the ids of two tasks of a loaded file, which need not be in order
IdPairs == {<<Usize(1), Usize(2)>>, <<Usize(2), Usize(1)>>,
            <<Usize(0), UsizeMax>>, <<UsizeMax, Usize(1)>>}

\* the stores a run starts from: up to two tasks with distinct ids, in any
\* status
LoadedStores ==
    {<<>>}
    \cup {<<LoadedTask(i, st, Date(2023, 6, 7))>> : i \in IdSet, st \in Statuses}
    \cup {<<LoadedTask(p[1], s1, Date(2023, 6, 7)), LoadedTask(p[2], s2, Date(2025, 5, 3))>> :
             p \in IdPairs, s1 \in Statuses, s2 \in Statuses}

\* what the user gives as the task of a command
Needles == {"1", " 2 ", "milk"}

\* what the comparison of a needle with titles and comments may give
TextMatches == [1..Len(tasks) -> BOOLEAN]

\* what the user types when asked to select an id
TypedLines == {"1", "2", "x"}

Titles == {"a", "b"}

Comments == {[kind |-> "Append", text |-> "c"], [kind |-> "Full", text |-> "c"],
             [kind |-> "Full", text |-> ""]}

StoreInit ==
    /\ today = TestToday
    /\ overflow_checks \in BOOLEAN
    /\ form = [kind |-> "none"]
    /\ phrase = ""
    /\ call = "store"
    /\ result = NoResult
    /\ tasks \in LoadedStores
    /\ now = 0
    /\ last = NoCommand

\* the end of a command that was given needle, selected sel (0 for None) and
\* saved store
Ran(cmd, needle, sel, method, store) ==
    /\ tasks' = store
    /\ now' = now + 1
    /\ last' = [cmd |-> cmd, needle |-> needle, sel |-> sel, method |-> method]
    /\ UNCHANGED <<today, overflow_checks, form, phrase, call, result>>

\* the body of Command::Done once the selection is made
DoneOn(needle, sel) ==
    IF sel = 0 THEN Ran("done", needle, 0, "None", tasks)
    ELSE Ran("done", needle, sel, "Done", set_status_idx(sel, "done"))

\* the body of Command::Todo
TodoOn(needle, sel) ==
    IF sel = 0 THEN Ran("todo", needle, 0, "None", tasks)
    ELSE Ran("todo", needle, sel, "Todo", set_status_idx(sel, "todo"))

\* every selected task is removed once the user confirms
DropOn_always_removes(needle, sel, confirm) ==
    IF sel = 0 THEN Ran("drop", needle, 0, "None", tasks)
    ELSE IF confirm THEN Ran("drop", needle, sel, "Remove", remove(sel))
    ELSE Ran("drop", needle, sel, "Declined", tasks)

\* the body of Command::Drop: a task in drop status is removed once the user
\* confirms, any other task is set to drop
DropOn(needle, sel, confirm) ==
    IF sel = 0 THEN Ran("drop", needle, 0, "None", tasks)
    ELSE IF tasks[sel].status = "drop"
    THEN (IF confirm THEN Ran("drop", needle, sel, "Remove", remove(sel))
          ELSE Ran("drop", needle, sel, "Declined", tasks))
    ELSE Ran("drop", needle, sel, "Drop", set_status_idx(sel, "drop"))

\* the body of Command::Rename
RenameOn(needle, sel, new_title) ==
    IF sel = 0 THEN Ran("rename", needle, 0, "None", tasks)
    ELSE Ran("rename", needle, sel, "Rename",
             [tasks EXCEPT ![sel] = change_title(tasks[sel], new_title)])

\* the body of Command::Comment
CommentOn(needle, sel, comment) ==
    IF sel = 0 THEN Ran("comment", needle, 0, "None", tasks)
    ELSE Ran("comment", needle, sel, "Comment",
             [tasks EXCEPT ![sel] = add_comment(tasks[sel], comment)])

\* add_task: Tasks::add with the location next_loc gave
AddOn(loc, title, status) ==
    IF loc.overflow /\ overflow_checks THEN Ran("add", "", 0, "Panic", tasks)
    ELSE Ran("add", "", Len(tasks) + 1, "Add",
             Append(tasks, new_task(loc.val, title, status)))

\* Command::Done
Done ==
    /\ call = "store" /\ now < MaxSteps
    /\ \E needle \in Needles, textual \in TextMatches, typed \in TypedLines :
           DoneOn(needle, select_interactive(needle, FALSE, textual, typed))

\* Command::Todo
Todo ==
    /\ call = "store" /\ now < MaxSteps
    /\ \E needle \in Needles, textual \in TextMatches, typed \in TypedLines :
           TodoOn(needle, select_interactive(needle, TRUE, textual, typed))

\* Command::Drop
DropCmd ==
    /\ call = "store" /\ now < MaxSteps
    /\ \E needle \in Needles, textual \in TextMatches, typed \in TypedLines,
          confirm \in BOOLEAN :
           DropOn(needle, select_interactive(needle, TRUE, textual, typed), confirm)

\* Command::Rename
Rename ==
    /\ call = "store" /\ now < MaxSteps
    /\ \E needle \in Needles, textual \in TextMatches, typed \in TypedLines,
          new_title \in Titles :
           RenameOn(needle, select_interactive(needle, FALSE, textual, typed), new_title)

\* Command::Comment
Comment ==
    /\ call = "store" /\ now < MaxSteps
    /\ \E needle \in Needles, textual \in TextMatches, typed \in TypedLines,
          comment \in Comments :
           CommentOn(needle, select_interactive(needle, FALSE, textual, typed), comment)

\* Command::External and Command::Log through add_task
AddTask ==
    /\ call = "store" /\ now < MaxSteps
    /\ \E title \in Titles, status \in {"todo", "done"} :
           AddOn(next_loc, title, status)

\* Command::RemoveDropped
RemoveDropped ==
    /\ call = "store" /\ now < MaxSteps
    /\ \E confirm \in BOOLEAN :
           IF confirm THEN Ran("remove_dropped", "", 0, "Remove", remove_dropped)
           ELSE Ran("remove_dropped", "", 0, "Declined", tasks)

\* Command::DropDone
DropDone ==
    /\ call = "store" /\ now < MaxSteps
    /\ \E confirm \in BOOLEAN :
           IF confirm THEN Ran("drop_done", "", 0, "Drop", drop_done)
           ELSE Ran("drop_done", "", 0, "Declined", tasks)

StoreNext ==
    Done \/ Todo \/ DropCmd \/ Rename \/ Comment \/ AddTask \/ RemoveDropped \/ DropDone

StoreSpec == StoreInit /\ [][StoreNext]_vars

(***************************************************************************)
(* The find command.  It reads the store and changes nothing.              *)
(***************************************************************************)
\* str::to_lowercase on the characters of the phrases
RECURSIVE to_lowercase(_)
to_lowercase(s) ==
    IF s = "" THEN ""
    ELSE (IF CharAt(s, 1) = "&" THEN "u"
          ELSE IF CharAt(s, 1) = "%" THEN "m"
          ELSE CharAt(s, 1)) \o to_lowercase(Drop(s, 1))

\* date terms of the phrases given to find
FindTerms == {"02.03.2022", "2023-06-07", "yesterday", "today"}

\* what follows the date filter in a phrase
FindTails == {"", " 1", "  %ilk "}

\* the phrases given to find: <attr> from <date> to <date>, <attr> <tag>
\* <date>, <attr> <date>, each with a tail; phrases that are no filter; a
\* phrase that makes the parser panic
FindQueries ==
    [kind : {"range"}, a : {"updated"}, x : FindTerms, y : FindTerms, tail : {""}]
    \cup [kind : {"range"}, a : {"created", "&pdated"}, x : {"2023-06-07", "today"},
          y : {"02.03.2022", "yesterday"}, tail : FindTails]
    \cup [kind : {"one"}, a : {"created"}, t : {"before", "after"},
          x : {"2023-06-07"}, tail : FindTails]
    \cup [kind : {"day"}, a : {"updated", "&pdated"}, x : {"yesterday"}, tail : FindTails]
    \cup [kind : {"plain"}, text : {"", "%ilk", "1", " update today", "updated",
                                    "updated from foo 1", "created since today"}]
    \cup [kind : {"huge"}, text : {"updated last 99999999999 days"}]

QueryText(q) ==
    CASE q.kind = "range" -> q.a \o " from " \o q.x \o " to " \o q.y \o q.tail
      [] q.kind = "one" -> q.a \o " " \o q.t \o " " \o q.x \o q.tail
      [] q.kind = "day" -> q.a \o " " \o q.x \o q.tail
      [] OTHER -> q.text

\* the days on which the tasks of the stores read by find were created and
\* updated
FindDays == {Date(2022, 3, 2), Date(2023, 6, 7), Date(2024, 1, 1), Date(2025, 5, 3),
             Date(2025, 5, 4)}

FoundTask(id, status, created, updated) ==
    [id |-> id, status |-> status, title |-> "a", comments |-> "",
     created_at |-> [day |-> created, tick |-> 0],
     updated_at |-> [day |-> updated, tick |-> 0]]

\* the stores read by find: a task created and updated on any two days, in
\* that order, and a task in drop status
FindStores ==
    {<<>>}
    \cup {<<FoundTask(Usize(1), "todo", cu[1], cu[2]),
            FoundTask(Usize(2), "drop", Date(2023, 6, 7), Date(2025, 5, 3))>> :
             cu \in {p \in FindDays \X FindDays : DayNumber(p[1]) <= DayNumber(p[2])}}

FindInit ==
    /\ today = TestToday
    /\ overflow_checks \in BOOLEAN
    /\ form = [kind |-> "none"]
    /\ phrase = ""
    /\ call = "find"
    /\ result = NoResult
    /\ tasks \in FindStores
    /\ now = 0
    /\ last = NoCommand

NoFilter == [attr |-> "None"]

\* a date is in the range when it is on the right side of either end
contains_either_end(filter, task) ==
    \/ DayNumber(filter.lower) <=
          DayNumber(IF filter.attr = "Updated" THEN task.updated_at.day
                    ELSE task.created_at.day)
    \/ DayNumber(IF filter.attr = "Updated" THEN task.updated_at.day
                 ELSE task.created_at.day) <= DayNumber(filter.upper)

\* RangeInclusive::contains on the date of the attribute of the filter
contains(filter, task) ==
    /\ DayNumber(filter.lower) <=
          DayNumber(IF filter.attr = "Updated" THEN task.updated_at.day
                    ELSE task.created_at.day)
    /\ DayNumber(IF filter.attr = "Updated" THEN task.updated_at.day
                 ELSE task.created_at.day) <= DayNumber(filter.upper)

\* the tasks printed by find
matched(filter, found) ==
    IF filter = NoFilter THEN found
    ELSE SelectSeq(found, LAMBDA i : contains(filter, tasks[i]))

\* the end of a find command: the tasks are printed and the process exits
Listed(q, textual, needle, filter, method, shown) ==
    /\ call' = "exit"
    /\ last' = [cmd |-> "find", q |-> q, textual |-> textual, needle |-> needle,
                filter |-> filter, method |-> method, shown |-> shown]
    /\ UNCHANGED <<today, overflow_checks, form, phrase, result, tasks, now>>

\* the whole phrase stays the needle when the filter is accepted
Found_whole_phrase(q, textual, task, r) ==
    IF r.st = "Panic" THEN Listed(q, textual, "", NoFilter, "Panic", <<>>)
    ELSE IF r.st = "Ok"
    THEN Listed(q, textual, task, r.v, "Filter",
                matched(r.v, find(to_lowercase(trim(task)), TRUE, TRUE, textual)))
    ELSE Listed(q, textual, task, NoFilter, "NoFilter",
                matched(NoFilter, find(to_lowercase(trim(task)), TRUE, FALSE, textual)))

\* the body of Command::Find on the lowercased phrase task and the result r
\* of attr_and_range on it
Found(q, textual, task, r) ==
    IF r.st = "Panic" THEN Listed(q, textual, "", NoFilter, "Panic", <<>>)
    ELSE IF r.st = "Ok"
    THEN Listed(q, textual, trim(r.rest), r.v, "Filter",
                matched(r.v, find(to_lowercase(trim(trim(r.rest))), TRUE, TRUE, textual)))
    ELSE Listed(q, textual, task, NoFilter, "NoFilter",
                matched(NoFilter, find(to_lowercase(trim(task)), TRUE, FALSE, textual)))

\* Command::Find
Find ==
    /\ call = "find"
    /\ \E q \in FindQueries, textual \in TextMatches :
           Found(q, textual, to_lowercase(QueryText(q)),
                 attr_and_range(to_lowercase(QueryText(q))))

FindNext == Find

FindSpec == FindInit /\ [][FindNext]_vars

(***************************************************************************)
(* Expected values, written out independently of the parsers               *)
(***************************************************************************)
DaysBefore(n) == DateOfDayNumber(DayNumber(today) - n)

\* index of a month on the month line
MonthIndex(dt) == dt.y * 12 + dt.m - 1

MonthsBefore(n) ==
    LET idx == MonthIndex(today) - n
        y   == idx \div 12
        m   == (idx % 12) + 1
    IN  Date(y, m, IF today.d <= DaysInMonth(y, m) THEN today.d ELSE DaysInMonth(y, m))

\* the date each date term of the inputs stands for
TermDate(x) ==
    CASE x \in {"today", "now", "SEGODN@", "SEYQAS"} -> today
      [] x \in {"yesterday", "VQERA", "day before"} -> DaysBefore(1)
      [] x = "POZAVQERA" -> DaysBefore(2)
      [] x = "02.03.2022" -> Date(2022, 3, 2)
      [] x = "31.08" -> Date(today.y, 8, 31)
      [] x = "2023-06-07" -> Date(2023, 6, 7)
      [] x = "2023-07-08" -> Date(2023, 7, 8)
      [] x = "3 months" -> MonthsBefore(3)
      [] x = "5 days" -> DaysBefore(5)
      [] x = "2 NEDELI" -> DaysBefore(14)
      [] x = "3 weeks ago" -> DaysBefore(21)
      [] x = "1 year ago" -> MonthsBefore(12)
      [] x = "3 DN@ NAZAD" -> DaysBefore(3)
      [] x = "week ago" -> DaysBefore(7)

AttrOf(a) == IF a \in {"updated", "OBNOVLENO"} THEN "Updated" ELSE "Created"

Parsed == call = "attr_and_range"

\* the text after the attribute word and the blanks that follow it
RangeText(f) == Drop(PhraseOf(f), Len(f.lead) + Len(f.a) + f.gap)

(***************************************************************************)
(* Claims                                                                  *)
(***************************************************************************)
\* C1: a phrase accepted through the two-boundary form with a single
\* boundary yields [d, Date::MAX] for a From(d) and [Date::MIN, d] for a To(d);
\* for "<attr> <tag> <date>" d is the date the date term stands for.
C1_SingleBoundaryDefaults ==
    (Parsed /\ form.kind \in {"one", "two"} /\ form.a \in AttrWords) =>
        /\ LET bs == boundaries(RangeText(form))
           IN  (bs.st = "Ok" /\ Len(bs.v) = 1) =>
                   /\ result.st = "Ok"
                   /\ result.v.attr = AttrOf(form.a)
                   /\ result.rest = bs.rest
                   /\ bs.v[1].side = "From" =>
                          result.v.lower = bs.v[1].date /\ result.v.upper = DateMax
                   /\ bs.v[1].side = "To" =>
                          result.v.lower = DateMin /\ result.v.upper = bs.v[1].date
        /\ (form.kind = "one" /\ form.d1 \in GoodTerms /\ form.t1 \in FromTags) =>
               result = Ok([attr |-> AttrOf(form.a), lower |-> TermDate(form.d1),
                            upper |-> DateMax], form.tail)
        /\ (form.kind = "one" /\ form.d1 \in GoodTerms /\ form.t1 \in ToTags) =>
               result = Ok([attr |-> AttrOf(form.a), lower |-> DateMin,
                            upper |-> TermDate(form.d1)], form.tail)

C1_Witness ==
    /\ Parsed /\ form.kind = "one" /\ form.t1 = "before" /\ form.d1 = "yesterday"
    /\ result.st = "Ok" /\ result.v.lower = DateMin
    /\ result.v.upper = DaysBefore(1)

\* C2: with a From tag, a To tag and two date literals (named day, CIS,
\* ISO), "A f X t Y" and "A t Y f X" both succeed with (A, [X, Y]).
C2_BoundaryOrderIrrelevant ==
    (/\ Parsed /\ form.kind = "two" /\ form.a \in AttrWords
     /\ form.d1 \in LiteralTerms /\ form.d2 \in LiteralTerms
     /\ \/ form.t1 \in FromTags /\ form.t2 \in ToTags
        \/ form.t1 \in ToTags /\ form.t2 \in FromTags) =>
        LET x  == IF form.t1 \in FromTags THEN form.d1 ELSE form.d2
            y  == IF form.t1 \in FromTags THEN form.d2 ELSE form.d1
            sw == [form EXCEPT !.t1 = form.t2, !.d1 = form.d2,
                               !.t2 = form.t1, !.d2 = form.d1]
        IN  /\ result = Ok([attr |-> AttrOf(form.a), lower |-> TermDate(x),
                            upper |-> TermDate(y)], form.tail)
            /\ attr_and_range(PhraseOf(sw)) = result

C2_Witness ==
    /\ Parsed /\ form.kind = "two" /\ form.t1 = "PO" /\ form.t2 = "S"
    /\ form.d1 = "02.03.2022" /\ form.d2 = "31.08" /\ form.a = "SOZDANO"
    /\ result.st = "Ok"
    /\ result.v.lower = Date(today.y, 8, 31) /\ result.v.upper = Date(2022, 3, 2)

UnitWords == EnUnits \cup RuUnits

DayUnits == {"days", "day", "DENK", "DNEY", "DN@"}

WeekUnits == {"weeks", "week", "NEDEL@", "NEDELI", "NEDELK", "NEDELF"}

MonthUnits == {"months", "month", "MES@CEV", "MES@CA", "MES@C"}

YearUnits == {"years", "year", "GODA", "GOD", "LET"}

\* a phrase of one of the two "last N <unit>" grammars
IsLastPhrase(f) ==
    /\ f.kind = "last" /\ f.a \in AttrWords /\ f.unit \in UnitWords
    /\ \/ f.lang = "en" /\ ~f.za /\ f.adj = "last"
       \/ f.lang = "ru" /\ f.adj \in RuLast

\* the amount a phrase writes, when it is below 10^8 (1 when omitted)
SmallAmountOf(f) == Len(f.n) <= 8

AmountOf(f) == IF f.n = "" THEN 1 ELSE DigitsToInt(f.n, 1, 0)

\* today - N units exists as a date (any amount of 10^8 or more is out of range)
StartInRange(f) ==
    /\ SmallAmountOf(f)
    /\ LET n == AmountOf(f)
       IN  CASE f.unit \in DayUnits -> DayNumber(today) - n >= DayNumber(DateMin)
             [] f.unit \in WeekUnits -> DayNumber(today) - 7 * n >= DayNumber(DateMin)
             [] f.unit \in MonthUnits -> MonthIndex(today) - n >= MonthIndex(DateMin)
             [] f.unit \in YearUnits -> MonthIndex(today) - 12 * n >= MonthIndex(DateMin)

\* today - N units
StartOf(f) ==
    LET n == AmountOf(f)
    IN  CASE f.unit \in DayUnits -> DaysBefore(n)
          [] f.unit \in WeekUnits -> DaysBefore(7 * n)
          [] f.unit \in MonthUnits -> MonthsBefore(n)
          [] f.unit \in YearUnits -> MonthsBefore(12 * n)

\* C3: every "last N <unit>" phrase, English or Russian, N defaulting to 1,
\* produces the range [today - N units, today].
C3_LastRange ==
    (Parsed /\ IsLastPhrase(form) /\ result.st = "Ok") =>
        /\ StartInRange(form)
        /\ result.v.lower = StartOf(form)
        /\ result.v.upper = today

\* C4: attr_and_range ends with a success or an ordinary parse failure for
\* every phrase; it never panics.
C4_NeverPanics == Parsed => result.st \in {"Ok", "Err"}

\* C5: when today minus N months (N years being 12 N months) is a
\* representable date, the subtraction succeeds and gives the date of the
\* target month with today's day of the month if that day exists there and
\* the last day of the target month otherwise.
C5_MonthClamping ==
    (/\ Parsed /\ IsLastPhrase(form) /\ form.unit \in MonthUnits \cup YearUnits
     /\ StartInRange(form)) =>
        /\ result.st = "Ok"
        /\ LET r == result.v.lower
               n == IF form.unit \in YearUnits THEN 12 * AmountOf(form)
                    ELSE AmountOf(form)
           IN  /\ ValidYmd(r.y, r.m, r.d)
               /\ MonthIndex(r) = MonthIndex(today) - n
               /\ IF today.d <= DaysInMonth(r.y, r.m) THEN r.d = today.d
                  ELSE r.d = DaysInMonth(r.y, r.m)

C5_Witness ==
    /\ Parsed /\ IsLastPhrase(form) /\ form.unit = "year" /\ form.n = "1"
    /\ today = Date(2024, 2, 29)
    /\ result.st = "Ok" /\ result.v.lower = Date(2023, 2, 28)

\* C6: a phrase whose first alphabetic token is not an attribute word fails
\* as a whole, whatever follows the token.
C6_UnknownAttributeFails ==
    (Parsed /\ form.a \in NonAttrWords) => result = Err

C6_Witness ==
    /\ Parsed /\ form.kind = "day" /\ form.a = "update" /\ form.d1 = "today"
    /\ form.lead = " " /\ result = Err

\* the second boundary of the phrase has a tag word and a date part that
\* parse_date rejects, after one well-formed boundary
TrailingBadBoundary(f) ==
    /\ f.kind = "two" /\ f.a \in AttrWords
    /\ f.t1 \in FromTags \cup ToTags /\ f.d1 \in GoodTerms
    /\ f.t2 \in FromTags \cup ToTags /\ f.d2 \in BadTerms

\* C7 as claimed: a well-formed boundary followed by a boundary tag whose
\* date part does not parse makes the whole parse fail.
C7_TrailingBoundaryFails ==
    (Parsed /\ TrailingBadBoundary(form)) => result.st = "Err"

\* C7 as amended: the parse succeeds with the one-sided range of the first
\* boundary; the rejected date part stays in the remainder, after the second
\* tag word unless that word was consumed as the suffix of the first date.
C7_TrailingBoundaryLeft ==
    (Parsed /\ TrailingBadBoundary(form)) =>
        LET sp     == Spaces(form.gap)
            suffix == form.d1 \in BareOffsetTerms /\ form.t2 = "before"
        IN  /\ result.st = "Ok"
            /\ result.v.attr = AttrOf(form.a)
            /\ form.t1 \in FromTags =>
                   result.v.lower = TermDate(form.d1) /\ result.v.upper = DateMax
            /\ form.t1 \in ToTags =>
                   result.v.lower = DateMin /\ result.v.upper = TermDate(form.d1)
            /\ result.rest = IF suffix THEN sp \o form.d2 \o form.tail
                             ELSE sp \o form.t2 \o sp \o form.d2 \o form.tail

C7_Witness ==
    /\ Parsed /\ form.kind = "two" /\ form.t1 = "from" /\ form.d1 = "VQERA"
    /\ form.t2 = "before" /\ form.d2 = "foo"
    /\ result.st = "Ok" /\ result.v.lower = DaysBefore(1)
    /\ result.v.upper = DateMax /\ result.rest = " before foo"

\* C8: when the two-boundary form reads two From boundaries or two To
\* boundaries, attr_and_range fails: no other alternative accepts the phrase.
\* (A "before" after a suffix-less offset is that offset's suffix, so such a
\* phrase holds one boundary.)
C8_SameSideBoundariesFail ==
    (Parsed /\ form.kind = "two" /\ form.a \in AttrWords) =>
        /\ LET bs == boundaries(RangeText(form))
           IN  (bs.st = "Ok" /\ Len(bs.v) = 2 /\ bs.v[1].side = bs.v[2].side) =>
                   result = Err
        /\ (/\ form.d1 \in GoodTerms /\ form.d2 \in GoodTerms
            /\ \/ {form.t1, form.t2} \subseteq FromTags
               \/ {form.t1, form.t2} \subseteq ToTags
            /\ ~(form.d1 \in BareOffsetTerms /\ form.t2 = "before")) =>
               result = Err

C8_Witness ==
    /\ Parsed /\ form.kind = "two" /\ form.a = "updated"
    /\ form.t1 = "before" /\ form.d1 = "today"
    /\ form.t2 = "to" /\ form.d2 = "VQERA"
    /\ result = Err

\* C9: "<attribute> <date>" with no boundary tag, the date being a named day,
\* a CIS literal, an ISO literal or a relative offset standing for d, yields
\* the single-day range [d, d].
C9_SingleDayRange ==
    (Parsed /\ form.kind = "day" /\ form.a \in AttrWords /\ form.d1 \in GoodTerms) =>
        result = Ok([attr |-> AttrOf(form.a), lower |-> TermDate(form.d1),
                     upper |-> TermDate(form.d1)], form.tail)

C9_Witness ==
    /\ Parsed /\ form.kind = "day" /\ form.d1 = "3 weeks ago" /\ form.tail = " milk"
    /\ result.st = "Ok" /\ result.v.lower = DaysBefore(21)
    /\ result.v.upper = DaysBefore(21) /\ result.rest = " milk"

\* the number a part of a CIS run writes; -1 when it is empty or too large
\* to be a day, a month or a year
PartValue(x) ==
    IF Len(x) = 0 \/ Len(x) > 9 \/ SpanLen(x, AsciiDigit, 0) < Len(x) THEN -1
    ELSE DigitsToInt(x, 1, 0)

\* C10: the CIS literal parser yields (year of today, m, d) for "d.m" and
\* (y, m, d) for "d.m.y"; it fails for one part, more than three parts, an
\* empty part and any (d, m, y) that is not a calendar date.
C10_CisDate ==
    call = "cis_date" =>
        LET n == Len(form.parts)
            d == PartValue(form.parts[1])
            m == PartValue(form.parts[2])
            y == IF n = 2 THEN today.y ELSE PartValue(form.parts[3])
        IN  IF n \in {2, 3} /\ ValidYmd(y, m, d)
                /\ (n = 3 => PartValue(form.parts[3]) >= 0)
            THEN result = Ok(Date(y, m, d), form.tail)
            ELSE result = Err

\* C11: in parse_offset the suffix is optional after a written amount and
\* mandatory without one: "N unit" and "N unit suffix" give today - N units,
\* "unit suffix" gives today - 1 unit, a bare unit is rejected, and
\* "<attribute> <unit>" fails at top level.
C11_SuffixAsymmetry ==
    /\ (call = "parse_offset" /\ form.unit \in UnitWords) =>
           IF form.n = "" /\ form.suffix = "" THEN result = Err
           ELSE result = Ok(StartOf(form), form.tail)
    /\ (Parsed /\ form.kind = "day" /\ form.a \in AttrWords /\ form.d1 \in UnitWords) =>
           result = Err

C11_Witness ==
    /\ call = "parse_offset" /\ form.n = "" /\ form.unit = "week"
    /\ form.suffix = "ago" /\ form.tail = ""
    /\ result = Ok(DaysBefore(7), "")

\* the calendar day before dt
PrevDay(dt) ==
    IF dt.d > 1 THEN Date(dt.y, dt.m, dt.d - 1)
    ELSE IF dt.m > 1 THEN Date(dt.y, dt.m - 1, DaysInMonth(dt.y, dt.m - 1))
    ELSE Date(dt.y - 1, 12, 31)

\* the day a named-day keyword stands for
NamedDay(x) ==
    CASE x \in {"today", "now", "SEGODN@", "SEYQAS"} -> today
      [] x \in {"yesterday", "VQERA"} -> PrevDay(today)
      [] x = "POZAVQERA" -> PrevDay(PrevDay(today))

\* C12: today/now/SEGODN@/SEYQAS resolve to today, yesterday/VQERA to the
\* day before, POZAVQERA to two days before, as a bare date and after every
\* boundary tag.
C12_NamedDays ==
    (/\ Parsed /\ form.kind \in {"day", "one"} /\ form.a \in AttrWords
     /\ form.d1 \in NamedTerms
     /\ form.kind = "one" => form.t1 \in FromTags \cup ToTags) =>
        /\ result.st = "Ok"
        /\ result.rest = form.tail
        /\ form.kind = "day" =>
               result.v.lower = NamedDay(form.d1) /\ result.v.upper = NamedDay(form.d1)
        /\ (form.kind = "one" /\ form.t1 \in FromTags) =>
               result.v.lower = NamedDay(form.d1) /\ result.v.upper = DateMax
        /\ (form.kind = "one" /\ form.t1 \in ToTags) =>
               result.v.lower = DateMin /\ result.v.upper = NamedDay(form.d1)

C12_Witness ==
    /\ Parsed /\ form.kind = "one" /\ form.t1 = "PO" /\ form.d1 = "POZAVQERA"
    /\ today = Date(2025, 1, 1)
    /\ result.st = "Ok" /\ result.v.lower = DateMin
    /\ result.v.upper = Date(2024, 12, 30)

\* C13: a word that only begins with a named-day keyword is not read as
\* that named day: "<attribute> <such word>" yields no date filter.
C13_ExactKeyword ==
    (Parsed /\ form.kind = "day" /\ form.a \in AttrWords /\ form.d1 \in PrefixWords) =>
        result.st # "Ok"

\* C14: each of the two dates of an accepted filter, rendered as ISO text
\* and parsed with iso_date, comes back as the same date.
C14_IsoRoundTrip ==
    call = "iso_round_trip" =>
        /\ result.lower = Ok(result.v.lower, "")
        /\ result.upper = Ok(result.v.upper, "")

\* rest is what is left of input after a prefix of it
IsSuffix(rest, input) ==
    Len(rest) <= Len(input) /\ Drop(input, Len(input) - Len(rest)) = rest

\* the first result of the sequence that is not a recoverable error
RECURSIVE FirstOf(_, _)
FirstOf(rs, i) ==
    IF i > Len(rs) THEN Err
    ELSE IF rs[i].st # "Err" THEN rs[i] ELSE FirstOf(rs, i + 1)

OnlyChanged(i) ==
    /\ Len(tasks') = Len(tasks)
    /\ \A k \in 1..Len(tasks) : k # i => tasks'[k] = tasks[k]

\* the task at index i is gone and the others keep their order
Removed(i) ==
    /\ Len(tasks') = Len(tasks) - 1
    /\ \A k \in 1..Len(tasks') : tasks'[k] = IF k < i THEN tasks[k] ELSE tasks[k + 1]

DistinctIds(store) ==
    \A i, j \in 1..Len(store) : i # j => store[i].id # store[j].id

\* b is the number after a, limb by limb
IsSucc(a, b) ==
    \E k \in 1..4 :
        /\ \A l \in 1..4 : l < k => b[l] = a[l]
        /\ b[k] = a[k] + 1
        /\ \A l \in 1..4 : l > k => a[l] = Limb - 1 /\ b[l] = 0

\* id is the largest id of the store
IsMaxId(store, id) ==
    /\ \E i \in 1..Len(store) : store[i].id = id
    /\ \A i \in 1..Len(store) : ~UsizeLess(id, store[i].id)

\* C19: the ids of the store stay pairwise distinct, and add appends at the
\* last index a task whose id is the largest id present plus one, or 1 for
\* an empty store.
C19_FreshIds ==
    [][/\ DistinctIds(tasks) => DistinctIds(tasks')
       /\ last'.cmd = "add" =>
             /\ last'.method = "Add"
             /\ Len(tasks') = Len(tasks) + 1
             /\ \A k \in 1..Len(tasks) : tasks'[k] = tasks[k]
             /\ IF tasks = <<>> THEN tasks'[1].id = Usize(1)
                ELSE \E m \in IdSet \cup {tasks[i].id : i \in 1..Len(tasks)} :
                        IsMaxId(tasks, m) /\ IsSucc(m, tasks'[Len(tasks')].id)]_vars

\* C20: the done, rename and comment commands never select a task in drop
\* status, whatever the needle, and a task in drop status is left as it is
\* by every command other than todo, drop and remove-dropped.
C20_DroppedUntouched ==
    [][/\ last'.cmd \in {"done", "rename", "comment"} /\ last'.sel # 0 =>
             tasks[last'.sel].status # "drop"
       /\ last'.cmd \notin {"todo", "drop", "remove_dropped"} =>
             \A i \in 1..Len(tasks) : tasks[i].status = "drop" =>
                 i <= Len(tasks') /\ tasks'[i] = tasks[i]]_vars

\* done was given the id of a task in drop status: that task is as loaded,
\* and the other task, found by its text, was set to done
C20_Witness ==
    /\ last.cmd = "done" /\ last.needle = "1" /\ last.sel # 0
    /\ tasks[last.sel].id # Usize(1)
    /\ tasks[last.sel].updated_at.tick = 1
    /\ \E i \in 1..Len(tasks) :
          /\ tasks[i].id = Usize(1) /\ tasks[i].status = "drop"
          /\ tasks[i].updated_at.tick = 0

(***************************************************************************)
(* The find command                                                        *)
(***************************************************************************)
\* the attribute a query names
FindAttr(q) == IF q.a \in {"updated", "&pdated"} THEN "Updated" ELSE "Created"

\* the query is "<attr> from X to Y" with X after Y
Inverted(q) ==
    q.kind = "range" /\ DayNumber(TermDate(q.x)) > DayNumber(TermDate(q.y))

\* C15: for "<attr> from X to Y" with X > Y the phrase is accepted with the
\* range [X, Y] as given, and find shows no task, whatever the dates of
\* the tasks are.
C15_InvertedRangeShowsNothing ==
    last.cmd = "find" /\ Inverted(last.q) =>
        /\ last.method = "Filter"
        /\ last.filter = [attr |-> FindAttr(last.q), lower |-> TermDate(last.q.x),
                          upper |-> TermDate(last.q.y)]
        /\ last.shown = <<>>

\* find ran with a range from today to 2023-06-07 and nothing after it, on
\* a store whose task was updated between the two days: every task of the
\* store is a candidate and none is shown
C15_Witness ==
    /\ last.cmd = "find" /\ last.q.kind = "range" /\ last.q.a = "updated"
    /\ last.q.x = "today" /\ last.q.y = "2023-06-07" /\ last.needle = ""
    /\ Len(tasks) = 2 /\ tasks[1].updated_at.day = Date(2024, 1, 1)
    /\ last.shown = <<>>

\* the filter a query with a date filter stands for
FindFilter(q) ==
    [attr  |-> FindAttr(q),
     lower |-> CASE q.kind = "one" /\ q.t = "before" -> DateMin
                 [] OTHER -> TermDate(q.x),
     upper |-> CASE q.kind = "range" -> TermDate(q.y)
                 [] q.kind = "one" /\ q.t = "after" -> DateMax
                 [] OTHER -> TermDate(q.x)]

\* the tail of a query, trimmed and in lower case
TailNeedle(tail) ==
    CASE tail = "" -> "" [] tail = " 1" -> "1" [] tail = "  %ilk " -> "milk"

\* a phrase that is no filter, trimmed and in lower case
PlainNeedle(text) ==
    CASE text = "%ilk" -> "milk" [] text = " update today" -> "update today"
      [] OTHER -> text

\* the date of a task that a filter looks at
FilterDay(q, task) ==
    IF FindAttr(q) = "Updated" THEN task.updated_at.day ELSE task.created_at.day

InFilter(q, task) ==
    /\ DayNumber(FindFilter(q).lower) <= DayNumber(FilterDay(q, task))
    /\ DayNumber(FilterDay(q, task)) <= DayNumber(FindFilter(q).upper)

\* C16: when attr_and_range accepts a prefix of the lowercased phrase, the
\* needle of the text search is the trimmed remainder and the tasks shown are
\* the tasks found whose updated or created date, as the attribute says,
\* lies in the inclusive range; when it fails, the needle is the whole
\* phrase (in lower case, as Tasks::find makes it anyway) and every task
\* found is shown, whatever its dates.
C16_FilterThenNeedle ==
    last.cmd = "find" =>
        /\ last.q.kind \in {"range", "one", "day"} =>
              /\ last.method = "Filter"
              /\ last.filter = FindFilter(last.q)
              /\ last.needle = TailNeedle(last.q.tail)
              /\ last.shown =
                    SelectSeq(find(TailNeedle(last.q.tail), TRUE, TRUE, last.textual),
                              LAMBDA i : InFilter(last.q, tasks[i]))
        /\ last.q.kind = "plain" =>
              /\ last.method = "NoFilter"
              /\ last.filter = NoFilter
              /\ trim(last.needle) = PlainNeedle(last.q.text)
              /\ last.shown = find(PlainNeedle(last.q.text), TRUE, FALSE, last.textual)

\* find ran on "Updated yesterday  Milk ": the needle is "milk", and of the
\* two tasks whose text matches only the one updated yesterday is shown
C16_Witness ==
    /\ last.cmd = "find" /\ last.q.kind = "day" /\ last.q.a = "&pdated"
    /\ last.q.tail = "  %ilk " /\ last.needle = "milk"
    /\ last.textual = <<TRUE, TRUE>>
    /\ Len(tasks) = 2 /\ tasks[1].updated_at.day = Date(2024, 1, 1)
    /\ last.shown = <<2>>

====
